---- MODULE Spec2Model ----
(***************************************************************************)
(* Order lifecycle, stock reservation and payment reconciliation of the    *)
(* Silver Statue store backend: routes/orders.js, routes/payment.js,       *)
(* routes/cart.js, routes/products.js, models/Order.js, models/Product.js. *)
(*                                                                         *)
(* Every request handler is an async function: it runs atomically between  *)
(* two awaits, and other requests run while it waits.  A handler is        *)
(* therefore a chain of steps; req[u] holds the handler's position and the *)
(* documents it has read, and the stored documents are the variables       *)
(* stock, isInStock, isActive, price, cart, orders.  A Mongoose save()     *)
(* writes the paths the handler modified ($set) and appends what it pushed  *)
(* ($push).                                                                *)
(***************************************************************************)
EXTENDS Integers, Sequences, FiniteSets, TLC

\* ---------------------------------------------------------------- bounds
MaxStock == 1
MaxQty == 1
MaxOrders == 2
MaxIntents == 1
MaxPayIntents == 2
MaxTimeline == 7
MaxLifecycleOrders == 1
MaxNotes == 1
MaxPaid == 2
MaxStoreTimeline == 4
MaxRaceTimeline == 3
TotalsStock == 2
CartStock == 11
CartLowStock == 3

\* ------------------------------------------------------ program constants
MaxPerItem == 10
FreeShippingFrom == 2000
FlatShipping == 200

Users == {"u1", "u2"}
Admin == "admin"
Provider == "stripe"
\* a second browser session of customer u1: the same req.user.id, its own
\* requests in flight
SecondSession == "u1-session2"
\* who sends requests: the customers, an administrator, the payment provider
Clients == Users \cup {SecondSession, Admin, Provider}
\* req.user.id of a request
UserOf(c) == IF c = SecondSession THEN "u1" ELSE c
Products == {"p1", "p2"}
\* the prices of the seeded catalogue, and the prices an edit may set
ListPrice == [p \in Products |-> IF p = "p1" THEN 1800 ELSE 225]
Prices == {225, 1800}
\* the amount of a refund that does not cover the order's total
PartialRefund == 1
NoUser == "nobody"
NoProduct == "noproduct"
NoStatus == "nostatus"

Statuses ==
  {"pending", "confirmed", "processing", "shipped", "out_for_delivery",
   "delivered", "cancelled", "returned"}

\* a transition table that lets a cancelled order be reopened
statusTransitionsReopening ==
  [s \in Statuses |->
     CASE s = "pending" -> {"confirmed", "cancelled"}
       [] s = "confirmed" -> {"processing", "cancelled"}
       [] s = "processing" -> {"shipped", "cancelled"}
       [] s = "shipped" -> {"out_for_delivery", "delivered"}
       [] s = "out_for_delivery" -> {"delivered"}
       [] s = "delivered" -> {"returned"}
       [] s = "cancelled" -> {"pending"}
       [] s = "returned" -> {}]

\* a transition table with one entry too many: delivered -> cancelled
statusTransitionsLoose ==
  [s \in Statuses |->
     CASE s = "pending" -> {"confirmed", "cancelled"}
       [] s = "confirmed" -> {"processing", "cancelled"}
       [] s = "processing" -> {"shipped", "cancelled"}
       [] s = "shipped" -> {"out_for_delivery", "delivered"}
       [] s = "out_for_delivery" -> {"delivered"}
       [] s = "delivered" -> {"returned", "cancelled"}
       [] s = "cancelled" -> {}
       [] s = "returned" -> {}]

\* Order.updateStatus: the table of allowed transitions
statusTransitions ==
  [s \in Statuses |->
     CASE s = "pending" -> {"confirmed", "cancelled"}
       [] s = "confirmed" -> {"processing", "cancelled"}
       [] s = "processing" -> {"shipped", "cancelled"}
       [] s = "shipped" -> {"out_for_delivery", "delivered"}
       [] s = "out_for_delivery" -> {"delivered"}
       [] s = "delivered" -> {"returned"}
       [] s = "cancelled" -> {}
       [] s = "returned" -> {}]

\* a cancel route that also accepts an order in processing
cancellableStatusesWide == {"pending", "confirmed", "processing"}

\* PUT /api/orders/:id/cancel: the statuses a customer may cancel from
cancellableStatuses == {"pending", "confirmed"}

\* POST /api/payment/create-intent: intent states that are returned as they are
reusableIntentStatuses ==
  {"requires_payment_method", "requires_confirmation", "requires_action"}

VARIABLES
  stock,      \* product -> stock.quantity
  isInStock,  \* product -> stock.isInStock (a stored flag)
  isActive,   \* product -> isActive
  price,      \* product -> the price a customer pays (discountedPrice || price)
  cart,       \* user -> the cart's items, a sequence of [product, quantity, price]
  orders,     \* the stored orders, in creation order; the index is the id
  intents,    \* the payment provider's intents; the index is the intent id
  req         \* user -> the request this user has in progress, and its
              \* response once the handler has answered

vars == <<stock, isInStock, isActive, price, cart, orders, intents, req>>

\* ---------------------------------------------------------------- helpers
IdleReq ==
  [op |-> "none", pc |-> "idle", id |-> 0, items |-> <<>>, k |-> 0,
   intent |-> 0, cur |-> NoStatus, target |-> NoStatus, kind |-> "none",
   code |-> 0, error |-> "none", product |-> NoProduct, available |-> 0,
   method |-> "none"]

\* sendSuccessResponse / sendErrorResponse: the handler has answered; id, cur
\* and target carry the order and the statuses the message names
Response(op, code, error) ==
  [IdleReq EXCEPT !.op = op, !.pc = "done", !.code = code, !.error = error]

Idle == \A u \in Clients : req[u].pc = "idle"

\* cart.items.findIndex(item => item.product._id.toString() === productId)
findIndex(items, p) ==
  IF \E j \in 1..Len(items) : items[j].product = p
  THEN CHOOSE j \in 1..Len(items) :
         /\ items[j].product = p
         /\ \A h \in 1..(j - 1) : items[h].product # p
  ELSE 0

\* timeline.push({status, message, ...})
TimelineEntry(status, message) == [status |-> status, message |-> message]

\* the timeline entries that report a failed or canceled payment
Notes(o) ==
  {j \in 1..Len(o.timeline) :
     o.timeline[j].message \in {"Payment failed", "Payment canceled"}}

Init ==
  /\ stock = [p \in Products |-> MaxStock]
  /\ isInStock = [p \in Products |-> TRUE]
  /\ isActive = [p \in Products |-> TRUE]
  /\ price = [p \in Products |-> ListPrice[p]]
  /\ cart = [u \in Users |-> <<>>]
  /\ orders = <<>>
  /\ intents = <<>>
  /\ req = [u \in Clients |-> IdleReq]

\* ------------------------------------------------------------------ cart
\* an add that sums quantities without the cap per product
AddToCartWithoutCap(u, p, q) ==
  /\ req[u].pc = "idle"
  /\ UNCHANGED <<stock, isInStock, isActive, price, orders, intents>>
  /\ IF q \notin 1..MaxPerItem
     THEN /\ req' = [req EXCEPT ![u] = Response("addToCart", 400, "ValidationFailed")]
          /\ UNCHANGED cart
     ELSE IF ~isActive[p]
     THEN /\ req' = [req EXCEPT ![u] = Response("addToCart", 404, "ProductNotFound")]
          /\ UNCHANGED cart
     ELSE IF ~isInStock[p] \/ stock[p] < q
     THEN /\ req' = [req EXCEPT ![u] = Response("addToCart", 400, "InsufficientStock")]
          /\ UNCHANGED cart
     ELSE LET existingItemIndex == findIndex(cart[u], p) IN
       IF existingItemIndex > 0
       THEN LET newQuantity == cart[u][existingItemIndex].quantity + q IN
         IF newQuantity > stock[p]
         THEN /\ req' = [req EXCEPT ![u] = Response("addToCart", 400, "InsufficientStock")]
              /\ UNCHANGED cart
         ELSE /\ cart' = [cart EXCEPT ![u][existingItemIndex].quantity = newQuantity]
              /\ req' = [req EXCEPT ![u] = Response("addToCart", 200, "none")]
       ELSE /\ cart' = [cart EXCEPT ![u] = Append(@, [product |-> p, quantity |-> q,
                                                          price |-> price[p]])]
            /\ req' = [req EXCEPT ![u] = Response("addToCart", 200, "none")]

\* POST /api/cart/items
AddToCart(u, p, q) ==
  /\ req[u].pc = "idle"
  /\ UNCHANGED <<stock, isInStock, isActive, price, orders, intents>>
  /\ IF q \notin 1..MaxPerItem
     THEN /\ req' = [req EXCEPT ![u] = Response("addToCart", 400, "ValidationFailed")]
          /\ UNCHANGED cart
     ELSE IF ~isActive[p]
     THEN /\ req' = [req EXCEPT ![u] = Response("addToCart", 404, "ProductNotFound")]
          /\ UNCHANGED cart
     ELSE IF ~isInStock[p] \/ stock[p] < q
     THEN /\ req' = [req EXCEPT ![u] = Response("addToCart", 400, "InsufficientStock")]
          /\ UNCHANGED cart
     ELSE LET existingItemIndex == findIndex(cart[u], p) IN
       IF existingItemIndex > 0
       THEN LET newQuantity == cart[u][existingItemIndex].quantity + q IN
         IF newQuantity > stock[p]
         THEN /\ req' = [req EXCEPT ![u] = Response("addToCart", 400, "InsufficientStock")]
              /\ UNCHANGED cart
         ELSE IF newQuantity > MaxPerItem
         THEN /\ req' = [req EXCEPT ![u] = Response("addToCart", 400, "MaxPerItem")]
              /\ UNCHANGED cart
         ELSE /\ cart' = [cart EXCEPT ![u][existingItemIndex].quantity = newQuantity]
              /\ req' = [req EXCEPT ![u] = Response("addToCart", 200, "none")]
       ELSE /\ cart' = [cart EXCEPT ![u] = Append(@, [product |-> p, quantity |-> q,
                                                          price |-> price[p]])]
            /\ req' = [req EXCEPT ![u] = Response("addToCart", 200, "none")]

\* a cart update that reserves the quantity out of the product's stock
UpdateCartItemReserving(u, p, q) ==
  /\ req[u].pc = "idle"
  /\ UNCHANGED <<isInStock, isActive, price, orders, intents>>
  /\ IF q \notin 1..MaxPerItem
     THEN /\ req' = [req EXCEPT ![u] = Response("updateCart", 400, "ValidationFailed")]
          /\ UNCHANGED <<cart, stock>>
     ELSE IF ~isActive[p]
     THEN /\ req' = [req EXCEPT ![u] = Response("updateCart", 404, "ProductNotFound")]
          /\ UNCHANGED <<cart, stock>>
     ELSE IF ~isInStock[p] \/ stock[p] < q
     THEN /\ req' = [req EXCEPT ![u] = Response("updateCart", 400, "InsufficientStock")]
          /\ UNCHANGED <<cart, stock>>
     ELSE LET itemIndex == findIndex(cart[u], p) IN
       IF itemIndex = 0
       THEN /\ req' = [req EXCEPT ![u] = Response("updateCart", 404, "ItemNotFound")]
            /\ UNCHANGED <<cart, stock>>
       ELSE /\ cart' = [cart EXCEPT ![u][itemIndex].quantity = q]
            /\ stock' = [stock EXCEPT ![p] = @ - q]
            /\ req' = [req EXCEPT ![u] = Response("updateCart", 200, "none")]

\* PUT /api/cart/items/:productId
UpdateCartItem(u, p, q) ==
  /\ req[u].pc = "idle"
  /\ UNCHANGED <<stock, isInStock, isActive, price, orders, intents>>
  /\ IF q \notin 1..MaxPerItem
     THEN /\ req' = [req EXCEPT ![u] = Response("updateCart", 400, "ValidationFailed")]
          /\ UNCHANGED cart
     ELSE IF ~isActive[p]
     THEN /\ req' = [req EXCEPT ![u] = Response("updateCart", 404, "ProductNotFound")]
          /\ UNCHANGED cart
     ELSE IF ~isInStock[p] \/ stock[p] < q
     THEN /\ req' = [req EXCEPT ![u] = Response("updateCart", 400, "InsufficientStock")]
          /\ UNCHANGED cart
     ELSE LET itemIndex == findIndex(cart[u], p) IN
       IF itemIndex = 0
       THEN /\ req' = [req EXCEPT ![u] = Response("updateCart", 404, "ItemNotFound")]
            /\ UNCHANGED cart
       ELSE /\ cart' = [cart EXCEPT ![u][itemIndex].quantity = q]
            /\ req' = [req EXCEPT ![u] = Response("updateCart", 200, "none")]

\* cart.items.filter(item => item.product.toString() !== productId)
RECURSIVE Without(_, _)
Without(items, p) ==
  IF items = <<>> THEN <<>>
  ELSE IF Head(items).product = p THEN Without(Tail(items), p)
  ELSE <<Head(items)>> \o Without(Tail(items), p)

\* DELETE /api/cart/items/:productId
RemoveCartItem(u, p) ==
  /\ req[u].pc = "idle"
  /\ UNCHANGED <<stock, isInStock, isActive, price, orders, intents>>
  /\ IF Len(Without(cart[u], p)) = Len(cart[u])
     THEN /\ req' = [req EXCEPT ![u] = Response("removeCart", 404, "ItemNotFound")]
          /\ UNCHANGED cart
     ELSE /\ cart' = [cart EXCEPT ![u] = Without(cart[u], p)]
          /\ req' = [req EXCEPT ![u] = Response("removeCart", 200, "none")]

\* DELETE /api/cart
ClearCart(u) ==
  /\ req[u].pc = "idle"
  /\ cart' = [cart EXCEPT ![u] = <<>>]
  /\ req' = [req EXCEPT ![u] = Response("clearCart", 200, "none")]
  /\ UNCHANGED <<stock, isInStock, isActive, price, orders, intents>>

\* POST /api/cart/validate: the loop over the cart's items; a line of an
\* inactive or sold-out product is dropped, a quantity above the stock is
\* lowered to the stock, a stale price is replaced by the current one
RECURSIVE validItems(_)
validItems(items) ==
  IF items = <<>> THEN <<>>
  ELSE LET item == Head(items)
           p == item.product
       IN IF ~isActive[p] \/ ~isInStock[p] \/ stock[p] = 0
          THEN validItems(Tail(items))
          ELSE <<[item EXCEPT !.quantity = IF @ > stock[p] THEN stock[p] ELSE @,
                              !.price = price[p]]>>
               \o validItems(Tail(items))

\* POST /api/cart/validate: the cart is saved only when a line was dropped
CartValidate(u) ==
  /\ req[u].pc = "idle"
  /\ cart' = [cart EXCEPT ![u] =
                IF Len(validItems(@)) < Len(@) THEN validItems(@) ELSE @]
  /\ req' = [req EXCEPT ![u] =
               Response("validateCart", 200,
                        IF validItems(cart[u]) = cart[u] THEN "valid" ELSE "issues")]
  /\ UNCHANGED <<stock, isInStock, isActive, price, orders, intents>>

\* a price edit that reaches into the orders holding the product
UpdateProductPriceInOrders(p, newPrice) ==
  /\ price' = [price EXCEPT ![p] = newPrice]
  /\ price' # price
  /\ orders' = [i \in 1..Len(orders) |->
                 [orders[i] EXCEPT !.items =
                    [j \in 1..Len(orders[i].items) |->
                       IF orders[i].items[j].product = p
                       THEN [orders[i].items[j] EXCEPT !.price = newPrice]
                       ELSE orders[i].items[j]]]]
  /\ UNCHANGED <<stock, isInStock, isActive, cart, intents, req>>

\* PUT /api/products/:id with a new price: Product.findByIdAndUpdate
UpdateProductPrice(p, newPrice) ==
  /\ price' = [price EXCEPT ![p] = newPrice]
  /\ price' # price
  /\ UNCHANGED <<stock, isInStock, isActive, cart, orders, intents, req>>

\* PUT /api/products/:id with {stock: {quantity}}: Product.findByIdAndUpdate
\* runs no pre-save hook; the update is written either path by path, which
\* keeps the stored isInStock, or as the whole stock object, which leaves
\* isInStock to its schema default (true) when the product is read
UpdateProductStock(p, newQuantity, flag) ==
  /\ flag \in {isInStock[p], TRUE}
  /\ stock' = [stock EXCEPT ![p] = newQuantity]
  /\ isInStock' = [isInStock EXCEPT ![p] = flag]
  /\ stock' # stock
  /\ UNCHANGED <<isActive, price, cart, orders, intents, req>>

\* DELETE /api/products/:id (soft delete; product.save() runs the pre-save
\* hook of models/Product.js, which recomputes stock.isInStock)
DeleteProduct(p) ==
  /\ isActive[p]
  /\ isActive' = [isActive EXCEPT ![p] = FALSE]
  /\ isInStock' = [isInStock EXCEPT ![p] = stock[p] > 0]
  /\ UNCHANGED <<stock, price, cart, orders, intents, req>>

\* ------------------------------------------------------ POST /api/orders
\* a validation loop that trusts the isInStock flag and compares no quantity
RECURSIVE ValidateCartFlagOnly(_, _)
ValidateCartFlagOnly(items, k) ==
  IF k > Len(items) THEN [kind |-> "ok", product |-> NoProduct, available |-> 0]
  ELSE LET product == items[k].product IN
    IF ~isActive[product]
    THEN [kind |-> "unavailable", product |-> product, available |-> 0]
    ELSE IF ~isInStock[product]
    THEN [kind |-> "insufficient", product |-> product, available |-> stock[product]]
    ELSE ValidateCartFlagOnly(items, k + 1)

\* a validation loop that reports the quantity asked for, not the one in stock
RECURSIVE ValidateCartWrongQuantity(_, _)
ValidateCartWrongQuantity(items, k) ==
  IF k > Len(items) THEN [kind |-> "ok", product |-> NoProduct, available |-> 0]
  ELSE LET product == items[k].product IN
    IF ~isActive[product]
    THEN [kind |-> "unavailable", product |-> product, available |-> 0]
    ELSE IF ~isInStock[product] \/ stock[product] < items[k].quantity
    THEN [kind |-> "insufficient", product |-> product,
          available |-> items[k].quantity]
    ELSE ValidateCartWrongQuantity(items, k + 1)

\* a validation loop that never looks at isActive
RECURSIVE ValidateCartActiveOrNot(_, _)
ValidateCartActiveOrNot(items, k) ==
  IF k > Len(items) THEN [kind |-> "ok", product |-> NoProduct, available |-> 0]
  ELSE LET product == items[k].product IN
    IF ~isInStock[product] \/ stock[product] < items[k].quantity
    THEN [kind |-> "insufficient", product |-> product, available |-> stock[product]]
    ELSE ValidateCartActiveOrNot(items, k + 1)

\* The validation loop over cart.items: the first line that fails decides.
RECURSIVE ValidateCart(_, _)
ValidateCart(items, k) ==
  IF k > Len(items) THEN [kind |-> "ok", product |-> NoProduct, available |-> 0]
  ELSE LET product == items[k].product IN
    IF ~isActive[product]
    THEN [kind |-> "unavailable", product |-> product, available |-> 0]
    ELSE IF ~isInStock[product] \/ stock[product] < items[k].quantity
    THEN [kind |-> "insufficient", product |-> product, available |-> stock[product]]
    ELSE ValidateCart(items, k + 1)

\* the order item built from a cart line: quantity, the cart's price, and
\* totalPrice: cartItem.price * cartItem.quantity
OrderItem(cartItem) ==
  [product |-> cartItem.product, quantity |-> cartItem.quantity,
   price |-> cartItem.price, totalPrice |-> cartItem.price * cartItem.quantity]

\* orderItems.reduce((sum, item) => sum + item.totalPrice, 0)
RECURSIVE SumTotalPrice(_)
SumTotalPrice(items) ==
  IF items = <<>> THEN 0
  ELSE Head(items).totalPrice + SumTotalPrice(Tail(items))

\* Math.round(subtotal * 0.18): for the whole amounts of this model the
\* double product rounds as the exact one does, half a rupee upwards
Tax(subtotal) == (18 * subtotal + 50) \div 100

\* a threshold that must be exceeded, not met
ShippingAboveThreshold(subtotal) == IF subtotal > FreeShippingFrom THEN 0 ELSE FlatShipping

\* subtotal >= 2000 ? 0 : 200
Shipping(subtotal) == IF subtotal >= FreeShippingFrom THEN 0 ELSE FlatShipping

\* POST /api/orders: the order summary computed inline by the route
OrderSummary(orderItems) ==
  LET subtotal == SumTotalPrice(orderItems)
      tax == Tax(subtotal)
      shipping == Shipping(subtotal)
  IN [subtotal |-> subtotal, tax |-> tax, shipping |-> shipping,
      discount |-> 0, total |-> subtotal + tax + shipping]

\* orderSchema.methods.calculateTotals: the summary recomputed from the items
\* and the stored discount
calculateTotals(o) ==
  LET subtotal == SumTotalPrice(o.items)
      tax == Tax(subtotal)
      shipping == Shipping(subtotal)
  IN [o EXCEPT !.orderSummary =
        [subtotal |-> subtotal, tax |-> tax, shipping |-> shipping,
         discount |-> o.orderSummary.discount,
         total |-> subtotal + tax + shipping - o.orderSummary.discount]]

\* Order.create(orderData): the document as stored by the create
NewOrder(u, items, method) ==
  [user |-> u, method |-> method, items |-> [j \in 1..Len(items) |-> OrderItem(items[j])],
   orderSummary |-> OrderSummary([j \in 1..Len(items) |-> OrderItem(items[j])]),
   orderStatus |-> "pending", timeline |-> <<>>,
   payStatus |-> "pending", paymentIntentId |-> 0, transactionId |-> 0,
   paidAt |-> 0, refundAmount |-> 0, shippedAt |-> 0, deliveredAt |-> 0,
   cancelledAt |-> 0, cancelledBy |-> NoUser, reason |-> FALSE]

\* Cart.findOne(...).populate('items.product') and the validation loop
PlaceRead(u, method) ==
  /\ req[u].pc = "idle"
  /\ Len(orders) < MaxOrders
  /\ UNCHANGED <<stock, isInStock, isActive, price, cart, orders, intents>>
  /\ IF Len(cart[u]) = 0
     THEN /\ req' = [req EXCEPT ![u] = Response("place", 400, "CartEmpty")]
     ELSE LET v == ValidateCart(cart[u], 1) IN
       IF v.kind = "insufficient"
       THEN /\ req' = [req EXCEPT ![u] = [Response("place", 400, "InsufficientStock")
                         EXCEPT !.product = v.product, !.available = v.available]]
       ELSE IF v.kind = "unavailable"
       THEN /\ req' = [req EXCEPT ![u] = Response("place", 400, "Unavailable")]
       ELSE /\ req' = [req EXCEPT ![u] =
                         [IdleReq EXCEPT !.op = "place", !.pc = "create",
                                         !.items = cart[u], !.method = method]]

\* const order = await Order.create(orderData)
PlaceCreate(u) ==
  /\ req[u].op = "place" /\ req[u].pc = "create"
  /\ Len(orders) < MaxOrders
  /\ orders' = Append(orders, NewOrder(u, req[u].items, req[u].method))
  /\ req' = [req EXCEPT ![u].pc = "timeline", ![u].id = Len(orders) + 1]
  /\ UNCHANGED <<stock, isInStock, isActive, price, cart, intents>>

\* order.timeline.push({status: 'pending', ...}); await order.save()
PlaceTimeline(u) ==
  /\ req[u].op = "place" /\ req[u].pc = "timeline"
  /\ orders' = [orders EXCEPT ![req[u].id].timeline =
                  Append(@, TimelineEntry("pending", "placed"))]
  /\ req' = [req EXCEPT ![u].pc = "stock", ![u].k = 1]
  /\ UNCHANGED <<stock, isInStock, isActive, price, cart, intents>>

\* a loop over the cart that stops after its first line
PlaceStockFirstLine(u) ==
  /\ req[u].op = "place" /\ req[u].pc = "stock"
  /\ LET line == req[u].items[req[u].k] IN
       stock' = [stock EXCEPT ![line.product] = @ - line.quantity]
  /\ req' = [req EXCEPT ![u].pc = "clear"]
  /\ UNCHANGED <<isInStock, isActive, price, cart, orders, intents>>

\* Product.findByIdAndUpdate(id, {$inc: {'stock.quantity': -quantity}})
PlaceStock(u) ==
  /\ req[u].op = "place" /\ req[u].pc = "stock"
  /\ LET line == req[u].items[req[u].k] IN
       stock' = [stock EXCEPT ![line.product] = @ - line.quantity]
  /\ req' = [req EXCEPT ![u].k = @ + 1,
                        ![u].pc = IF req[u].k = Len(req[u].items)
                                  THEN "clear" ELSE "stock"]
  /\ UNCHANGED <<isInStock, isActive, price, cart, orders, intents>>

\* cart.items = []; await cart.save(); sendSuccessResponse(res, 201, ...)
PlaceClear(u) ==
  /\ req[u].op = "place" /\ req[u].pc = "clear"
  /\ cart' = [cart EXCEPT ![u] = <<>>]
  /\ req' = [req EXCEPT ![u] = [Response("place", 201, "none") EXCEPT !.id = req[u].id]]
  /\ UNCHANGED <<stock, isInStock, isActive, price, orders, intents>>

\* ------------------------------------------- PUT /api/orders/:id/cancel
\* Order.findById and the checks before the first write
CancelRead(u, i) ==
  /\ req[u].pc = "idle"
  /\ UNCHANGED <<stock, isInStock, isActive, price, cart, orders, intents>>
  /\ IF i > Len(orders)
     THEN /\ req' = [req EXCEPT ![u] = [Response("cancel", 404, "OrderNotFound") EXCEPT !.id = i]]
     ELSE IF orders[i].user # UserOf(u)
     THEN /\ req' = [req EXCEPT ![u] = [Response("cancel", 403, "AccessDenied") EXCEPT !.id = i]]
     ELSE IF orders[i].orderStatus \notin cancellableStatuses
     THEN /\ req' = [req EXCEPT ![u] = [Response("cancel", 400, "CannotCancel")
                       EXCEPT !.id = i, !.cur = orders[i].orderStatus]]
     ELSE /\ Len(orders[i].timeline) < MaxTimeline
          /\ req' = [req EXCEPT ![u] =
                       [IdleReq EXCEPT !.op = "cancel", !.pc = "save", !.id = i,
                                       !.cur = orders[i].orderStatus,
                                       !.items = orders[i].items]]

\* order.orderStatus = 'cancelled'; order.cancellation = {...};
\* order.timeline.push(...); await order.save()
CancelSave(u) ==
  /\ req[u].op = "cancel" /\ req[u].pc = "save"
  /\ orders' = [orders EXCEPT ![req[u].id] =
                  [@ EXCEPT !.orderStatus = "cancelled",
                            !.reason = TRUE,
                            !.cancelledAt = @ + 1,
                            !.cancelledBy = UserOf(u),
                            !.timeline = Append(@, TimelineEntry("cancelled", "customer"))]]
  /\ req' = [req EXCEPT ![u].pc = "restore", ![u].k = 1]
  /\ UNCHANGED <<stock, isInStock, isActive, price, cart, intents>>

\* Product.findByIdAndUpdate(item.product, {$inc: {'stock.quantity': item.quantity}})
CancelRestore(u) ==
  /\ req[u].op = "cancel" /\ req[u].pc = "restore"
  /\ LET item == req[u].items[req[u].k] IN
       stock' = [stock EXCEPT ![item.product] = @ + item.quantity]
  /\ IF req[u].k = Len(req[u].items)
     THEN /\ req' = [req EXCEPT ![u] = [Response("cancel", 200, "none") EXCEPT !.id = req[u].id]]
     ELSE /\ req' = [req EXCEPT ![u].k = @ + 1]
  /\ UNCHANGED <<isInStock, isActive, price, cart, orders, intents>>

\* ------------------------------------------- PUT /api/orders/:id/status
\* orderSchema.methods.addTimelineEntry: push the entry, set the status
addTimelineEntry(o, status, message) ==
  [o EXCEPT !.timeline = Append(@, TimelineEntry(status, message)),
            !.orderStatus = status]

\* a switch without the 'delivered' case
updateStatusWithoutDelivered(o, newStatus, updatedBy) ==
  LET t == addTimelineEntry([o EXCEPT !.orderStatus = newStatus], newStatus, "admin") IN
    CASE newStatus = "shipped" -> [t EXCEPT !.shippedAt = @ + 1]
      [] newStatus = "cancelled" ->
           [t EXCEPT !.cancelledAt = @ + 1, !.cancelledBy = updatedBy]
      [] OTHER -> t

\* orderSchema.methods.updateStatus, after its transition check has passed:
\* the status, the timeline entry and the timestamp of the switch
updateStatus(o, newStatus, updatedBy) ==
  LET t == addTimelineEntry([o EXCEPT !.orderStatus = newStatus], newStatus, "admin") IN
    CASE newStatus = "shipped" -> [t EXCEPT !.shippedAt = @ + 1]
      [] newStatus = "delivered" -> [t EXCEPT !.deliveredAt = @ + 1]
      [] newStatus = "cancelled" ->
           [t EXCEPT !.cancelledAt = @ + 1, !.cancelledBy = updatedBy]
      [] OTHER -> t

\* Order.findById, then updateStatus up to its throw
StatusRead(i, newStatus) ==
  /\ req[Admin].pc = "idle"
  /\ UNCHANGED <<stock, isInStock, isActive, price, cart, orders, intents>>
  /\ IF i > Len(orders)
     THEN /\ req' = [req EXCEPT ![Admin] = [Response("status", 404, "OrderNotFound") EXCEPT !.id = i]]
     ELSE IF newStatus \notin statusTransitions[orders[i].orderStatus]
     THEN /\ req' = [req EXCEPT ![Admin] = [Response("status", 400, "InvalidTransition")
                       EXCEPT !.id = i, !.cur = orders[i].orderStatus,
                              !.target = newStatus]]
     ELSE /\ Len(orders[i].timeline) < MaxTimeline
          /\ req' = [req EXCEPT ![Admin] =
                       [IdleReq EXCEPT !.op = "status", !.pc = "save", !.id = i,
                                       !.cur = orders[i].orderStatus,
                                       !.target = newStatus]]

\* updateStatus calls save() twice on the same document without awaiting the
\* first call (addTimelineEntry returns this.save(), updateStatus returns
\* this.save() again).  The first save writes the status, the timeline entry
\* and the timestamp; the second either is refused while the first is in
\* flight (ParallelSaveError, caught by the route and answered with 400) or
\* is accepted, and the route then saves the tracking fields and answers 200.
StatusSave(secondSave) ==
  /\ req[Admin].op = "status" /\ req[Admin].pc = "save"
  /\ orders' = [orders EXCEPT ![req[Admin].id] = updateStatus(@, req[Admin].target, Admin)]
  /\ req' = [req EXCEPT ![Admin] = IF secondSave = "refused"
            THEN [Response("status", 400, "ParallelSave") EXCEPT !.id = req[Admin].id]
            ELSE [Response("status", 200, "none") EXCEPT !.id = req[Admin].id]]
  /\ UNCHANGED <<stock, isInStock, isActive, price, cart, intents>>

\* ------------------------------------------------------------- payment
\* Order.findOne({'paymentDetails.paymentIntentId': id [, user]})
findOrder(k, owners) ==
  IF \E i \in 1..Len(orders) :
       orders[i].paymentIntentId = k /\ orders[i].user \in owners
  THEN CHOOSE i \in 1..Len(orders) :
         /\ orders[i].paymentIntentId = k /\ orders[i].user \in owners
         /\ \A h \in 1..(i - 1) :
              ~(orders[h].paymentIntentId = k /\ orders[h].user \in owners)
  ELSE 0

\* POST /api/payment/create-intent; retrieved tells whether
\* stripe.paymentIntents.retrieve answers or throws (the route catches the
\* throw and goes on to create an intent)
CreateIntent(u, i, retrieved) ==
  /\ req[u].pc = "idle"
  /\ UNCHANGED <<stock, isInStock, isActive, price, cart>>
  /\ IF i > Len(orders)
     THEN /\ req' = [req EXCEPT ![u] = [Response("createIntent", 404, "OrderNotFound") EXCEPT !.id = i]]
          /\ UNCHANGED <<orders, intents>>
     ELSE IF orders[i].user # u
     THEN /\ req' = [req EXCEPT ![u] = [Response("createIntent", 403, "AccessDenied") EXCEPT !.id = i]]
          /\ UNCHANGED <<orders, intents>>
     ELSE IF orders[i].orderStatus # "pending"
     THEN /\ req' = [req EXCEPT ![u] = [Response("createIntent", 400, "NotPayable") EXCEPT !.id = i]]
          /\ UNCHANGED <<orders, intents>>
     ELSE LET k == orders[i].paymentIntentId IN
       IF k # 0 /\ retrieved /\ intents[k].status = "succeeded"
       THEN /\ req' = [req EXCEPT ![u] = [Response("createIntent", 400, "AlreadyPaid") EXCEPT !.id = i]]
            /\ UNCHANGED <<orders, intents>>
       ELSE IF k # 0 /\ retrieved /\ intents[k].status \in reusableIntentStatuses
       THEN /\ req' = [req EXCEPT ![u] = [Response("createIntent", 200, "retrieved") EXCEPT !.id = i]]
            /\ UNCHANGED <<orders, intents>>
       ELSE /\ Len(intents) < MaxPayIntents
            /\ intents' = Append(intents,
                            [status |-> "requires_payment_method", events |-> {},
                             order |-> i, amount |-> orders[i].orderSummary.total,
                             refunded |-> 0])
            /\ orders' = [orders EXCEPT ![i].paymentIntentId = Len(intents) + 1]
            /\ req' = [req EXCEPT ![u] = [Response("createIntent", 200, "none") EXCEPT !.id = i]]

\* The payment provider: what happens to an intent outside this program, and
\* the events the provider signs and may deliver (any number of times, in any
\* order) to POST /api/payment/webhook.
ProviderStep(k, outcome) ==
  /\ k \in 1..Len(intents)
  /\ intents[k].status \in {"requires_payment_method", "requires_action"}
  /\ intents' = [intents EXCEPT ![k] =
       CASE outcome = "succeeded" ->
              [@ EXCEPT !.status = "succeeded", !.events = @ \cup {"succeeded"}]
         [] outcome = "payment_failed" ->
              [@ EXCEPT !.status = "requires_payment_method",
                        !.events = @ \cup {"payment_failed"}]
         [] outcome = "canceled" ->
              [@ EXCEPT !.status = "canceled", !.events = @ \cup {"canceled"}]
         [] OTHER -> [@ EXCEPT !.status = "requires_action"]]
  /\ intents' # intents
  /\ UNCHANGED <<stock, isInStock, isActive, price, cart, orders, req>>

\* POST /api/payment/confirm: stripe.paymentIntents.retrieve and Order.findOne
ConfirmRead(u, k) ==
  /\ req[u].pc = "idle"
  /\ k \in 1..Len(intents)
  /\ UNCHANGED <<stock, isInStock, isActive, price, cart, orders, intents>>
  /\ LET i == findOrder(k, {u}) IN
     IF i = 0
     THEN /\ req' = [req EXCEPT ![u] = Response("confirm", 404, "OrderNotFound")]
     ELSE IF intents[k].status = "succeeded"
     THEN /\ Len(orders[i].timeline) < MaxTimeline
          /\ orders[i].paidAt < MaxPaid
          /\ req' = [req EXCEPT ![u] =
                       [IdleReq EXCEPT !.op = "confirm", !.pc = "save", !.id = i,
                                       !.intent = k, !.kind = "succeeded",
                                       !.cur = orders[i].orderStatus]]
     ELSE IF intents[k].status = "requires_action"
     THEN /\ req' = [req EXCEPT ![u] = [Response("confirm", 200, "requires_action") EXCEPT !.id = i]]
     ELSE /\ req' = [req EXCEPT ![u] =
                       [IdleReq EXCEPT !.op = "confirm", !.pc = "save", !.id = i,
                                       !.intent = k, !.kind = "failed",
                                       !.cur = orders[i].orderStatus]]

\* the two branches of POST /api/payment/confirm that write the order; cur is
\* the status the handler read: save() writes orderStatus when the
\* assignment of 'confirmed' changed the document it read
confirmPayment(o, cur, kind, k) ==
  IF kind = "succeeded"
  THEN [o EXCEPT !.payStatus = "completed",
                 !.transactionId = k,
                 !.paidAt = @ + 1,
                 !.orderStatus = IF cur = "confirmed" THEN @ ELSE "confirmed",
                 !.timeline = Append(@, TimelineEntry("confirmed", "confirm"))]
  ELSE [o EXCEPT !.payStatus = "failed"]

\* await order.save() and the response of POST /api/payment/confirm
ConfirmSave(u) ==
  /\ req[u].op = "confirm" /\ req[u].pc = "save"
  /\ orders' = [orders EXCEPT ![req[u].id] =
                  confirmPayment(@, req[u].cur, req[u].kind, req[u].intent)]
  /\ req' = [req EXCEPT ![u] = IF req[u].kind = "succeeded"
            THEN [Response("confirm", 200, "none") EXCEPT !.id = req[u].id]
            ELSE [Response("confirm", 400, "PaymentFailed") EXCEPT !.id = req[u].id]]
  /\ UNCHANGED <<stock, isInStock, isActive, price, cart, intents>>

\* handlePaymentSuccess: the writes made for an order that was read with
\* payment status other than completed and order status cur
handlePaymentSuccess(o, cur, k) ==
  LET paid == [o EXCEPT !.payStatus = "completed", !.transactionId = k,
                        !.paidAt = @ + 1] IN
    IF cur = "pending"
    THEN [paid EXCEPT !.orderStatus = "confirmed",
                      !.timeline = Append(@, TimelineEntry("confirmed", "webhook"))]
    ELSE paid

\* a handler that records the failure under a fixed status
handlePaymentFailedAsPending(o, cur) ==
  [o EXCEPT !.payStatus = "failed",
            !.timeline = Append(@, TimelineEntry("pending", "Payment failed"))]

\* handlePaymentFailed
handlePaymentFailed(o, cur) ==
  [o EXCEPT !.payStatus = "failed",
            !.timeline = Append(@, TimelineEntry(cur, "Payment failed"))]

\* a canceled payment that also cancels the order
handlePaymentCanceledCancelsOrder(o, cur) ==
  [o EXCEPT !.payStatus = "failed", !.orderStatus = "cancelled",
            !.timeline = Append(@, TimelineEntry("cancelled", "Payment canceled"))]

\* handlePaymentCanceled
handlePaymentCanceled(o, cur) ==
  [o EXCEPT !.payStatus = "failed",
            !.timeline = Append(@, TimelineEntry(cur, "Payment canceled"))]

\* handlers that write whenever the order exists
handlerWritesAlways(event, i) == i # 0

\* the guard of handlePaymentSuccess / handlePaymentFailed / handlePaymentCanceled
handlerWrites(event, i) ==
  /\ i # 0
  /\ event = "succeeded" => orders[i].payStatus # "completed"

\* a webhook that parses the event without verifying its signature
WebhookReadUnverified(k, event, signatureOk) ==
  /\ req[Provider].pc = "idle"
  /\ k \in 1..Len(intents)
  /\ signatureOk => event \in intents[k].events
  /\ UNCHANGED <<stock, isInStock, isActive, price, cart, orders, intents>>
  /\ LET i == findOrder(k, Users) IN
     IF ~handlerWrites(event, i)
     THEN /\ req' = [req EXCEPT ![Provider] = [Response("webhook", 200, "received")
                       EXCEPT !.id = i, !.kind = event]]
     ELSE /\ (event = "succeeded" /\ orders[i].orderStatus # "pending")
               \/ Len(orders[i].timeline) < MaxTimeline
          /\ IF event = "succeeded" THEN orders[i].paidAt < MaxPaid
             ELSE Cardinality(Notes(orders[i])) < MaxNotes
          /\ req' = [req EXCEPT ![Provider] =
                       [IdleReq EXCEPT !.op = "webhook", !.pc = "save", !.id = i,
                                       !.intent = k, !.kind = event,
                                       !.cur = orders[i].orderStatus]]

\* POST /api/payment/webhook: constructEvent, then the handler's Order.findOne
WebhookRead(k, event, signatureOk) ==
  /\ req[Provider].pc = "idle"
  /\ k \in 1..Len(intents)
  /\ signatureOk => event \in intents[k].events
  /\ UNCHANGED <<stock, isInStock, isActive, price, cart, orders, intents>>
  /\ LET i == findOrder(k, Users) IN
     IF ~signatureOk
     THEN /\ req' = [req EXCEPT ![Provider] = Response("webhook", 400, "SignatureVerification")]
     ELSE IF ~handlerWrites(event, i)
     THEN /\ req' = [req EXCEPT ![Provider] = [Response("webhook", 200, "received")
                       EXCEPT !.id = i, !.kind = event]]
     ELSE /\ (event = "succeeded" /\ orders[i].orderStatus # "pending")
               \/ Len(orders[i].timeline) < MaxTimeline
          /\ IF event = "succeeded" THEN orders[i].paidAt < MaxPaid
             ELSE Cardinality(Notes(orders[i])) < MaxNotes
          /\ req' = [req EXCEPT ![Provider] =
                       [IdleReq EXCEPT !.op = "webhook", !.pc = "save", !.id = i,
                                       !.intent = k, !.kind = event,
                                       !.cur = orders[i].orderStatus]]

\* await order.save() in the handler, then res.json({received: true})
WebhookSave ==
  /\ req[Provider].op = "webhook" /\ req[Provider].pc = "save"
  /\ orders' = [orders EXCEPT ![req[Provider].id] =
       CASE req[Provider].kind = "succeeded" -> handlePaymentSuccess(@, req[Provider].cur, req[Provider].intent)
         [] req[Provider].kind = "payment_failed" -> handlePaymentFailed(@, req[Provider].cur)
         [] OTHER -> handlePaymentCanceled(@, req[Provider].cur)]
  /\ req' = [req EXCEPT ![Provider] = [Response("webhook", 200, "received") EXCEPT !.id = req[Provider].id]]
  /\ UNCHANGED <<stock, isInStock, isActive, price, cart, intents>>

\* a refund route without the check of the payment method
RefundReadAnyMethod(u, i, full) ==
  /\ req[u].pc = "idle"
  /\ UNCHANGED <<stock, isInStock, isActive, price, cart, orders, intents>>
  /\ IF i > Len(orders)
     THEN /\ req' = [req EXCEPT ![u] = [Response("refund", 404, "OrderNotFound") EXCEPT !.id = i]]
     ELSE IF u # Admin /\ orders[i].user # UserOf(u)
     THEN /\ req' = [req EXCEPT ![u] = [Response("refund", 403, "AccessDenied") EXCEPT !.id = i]]
     ELSE IF orders[i].payStatus # "completed"
     THEN /\ req' = [req EXCEPT ![u] = [Response("refund", 400, "Unpaid") EXCEPT !.id = i]]
     ELSE /\ Len(orders[i].timeline) < MaxTimeline
          /\ req' = [req EXCEPT ![u] =
                       [IdleReq EXCEPT !.op = "refund", !.pc = "save", !.id = i,
                                       !.kind = IF full THEN "full" ELSE "partial",
                                       !.cur = orders[i].orderStatus]]

\* POST /api/payment/refund: Order.findById and the checks before the refund
\* is asked of the provider; full tells whether the amount covers the total
RefundRead(u, i, full) ==
  /\ req[u].pc = "idle"
  /\ UNCHANGED <<stock, isInStock, isActive, price, cart, orders, intents>>
  /\ IF i > Len(orders)
     THEN /\ req' = [req EXCEPT ![u] = [Response("refund", 404, "OrderNotFound") EXCEPT !.id = i]]
     ELSE IF u # Admin /\ orders[i].user # UserOf(u)
     THEN /\ req' = [req EXCEPT ![u] = [Response("refund", 403, "AccessDenied") EXCEPT !.id = i]]
     ELSE IF orders[i].payStatus # "completed"
     THEN /\ req' = [req EXCEPT ![u] = [Response("refund", 400, "Unpaid") EXCEPT !.id = i]]
     ELSE IF orders[i].method = "cod"
     THEN /\ req' = [req EXCEPT ![u] = [Response("refund", 400, "CashOnDelivery") EXCEPT !.id = i]]
     ELSE /\ Len(orders[i].timeline) < MaxTimeline
          /\ req' = [req EXCEPT ![u] =
                       [IdleReq EXCEPT !.op = "refund", !.pc = "save", !.id = i,
                                       !.kind = IF full THEN "full" ELSE "partial",
                                       !.cur = orders[i].orderStatus]]

\* the writes of the refund route: amount, payment status, timeline entry
refund(o, cur, kind) ==
  [o EXCEPT !.refundAmount = @ + (IF kind = "full" THEN o.orderSummary.total
                                  ELSE PartialRefund),
            !.payStatus = IF kind = "full" THEN "refunded" ELSE "partially_refunded",
            !.timeline = Append(@, TimelineEntry(cur, "Refund"))]

\* stripe.refunds.create, which the provider refuses when the intent has no
\* successful charge or the amount exceeds what is left of the charge, and
\* otherwise accepts or refuses; then order.save() and the answer
RefundSave(u, accepted) ==
  /\ req[u].op = "refund" /\ req[u].pc = "save"
  /\ LET i == req[u].id
         k == orders[i].paymentIntentId
         refundAmount == IF req[u].kind = "full" THEN orders[i].orderSummary.total
                         ELSE PartialRefund
     IN /\ accepted => /\ k # 0
                       /\ intents[k].status = "succeeded"
                       /\ intents[k].refunded + refundAmount <= intents[k].amount
        /\ IF accepted
           THEN /\ intents' = [intents EXCEPT ![k].refunded = @ + refundAmount]
                /\ orders' = [orders EXCEPT ![i] = refund(@, req[u].cur, req[u].kind)]
                /\ req' = [req EXCEPT ![u] = [Response("refund", 200, "none") EXCEPT !.id = i]]
           ELSE /\ req' = [req EXCEPT ![u] =
                             [Response("refund", 400, "StripeInvalidRequest") EXCEPT !.id = i]]
                /\ UNCHANGED <<orders, intents>>
  /\ UNCHANGED <<stock, isInStock, isActive, price, cart>>

\* ------------------------------------------------------- specifications
Events == {"succeeded", "payment_failed", "canceled"}

\* res.status(code).json(...): the answer leaves, the request is over
Respond(u) ==
  /\ req[u].pc = "done"
  /\ req' = [req EXCEPT ![u] = IdleReq]
  /\ UNCHANGED <<stock, isInStock, isActive, price, cart, orders, intents>>

\* a shopping request arrives
BeginShop ==
  \/ \E u \in Users, p \in Products, q \in 1..MaxQty : AddToCart(u, p, q)
  \/ \E u \in Users : PlaceRead(u, "stripe")

\* an administrator retires a product
BeginAdmin == \E p \in Products : DeleteProduct(p)

\* a customer asks to cancel an order
BeginCancel == \E u \in Users, i \in 1..MaxOrders : CancelRead(u, i)

\* a shopping request in progress takes its next step
ContinueShop ==
  \/ \E u \in Clients : Respond(u)
  \/ \E u \in Users : PlaceCreate(u)
  \/ \E u \in Users : PlaceTimeline(u)
  \/ \E u \in Users : PlaceStock(u)
  \/ \E u \in Users : PlaceClear(u)
  \/ \E u \in Users : CancelSave(u)
  \/ \E u \in Users : CancelRestore(u)

\* a refund is asked for, by the customer or by the administrator
BeginRefund ==
  \E u \in Users \cup {Admin}, i \in 1..MaxOrders, full \in BOOLEAN :
    RefundRead(u, i, full)

\* an order-status or payment request arrives, or the provider acts
BeginOrder ==
  \/ \E i \in 1..MaxOrders, s \in Statuses : StatusRead(i, s)
  \/ \E u \in Users, i \in 1..MaxOrders, retrieved \in BOOLEAN :
        CreateIntent(u, i, retrieved) /\ Len(intents') <= MaxIntents
  \/ \E k \in 1..MaxIntents,
        o \in {"succeeded", "payment_failed", "canceled", "requires_action"} :
        ProviderStep(k, o)
  \/ \E u \in Users, k \in 1..MaxIntents : ConfirmRead(u, k)
  \/ \E k \in 1..MaxIntents, e \in Events, sig \in BOOLEAN :
        WebhookRead(k, e, sig)

\* an order-status or payment request in progress takes its next step
ContinueOrder ==
  \/ \E second \in {"refused", "accepted"} : StatusSave(second)
  \/ \E u \in Users : ConfirmSave(u)
  \/ WebhookSave

\* a refund in progress takes its next step
ContinueRefund ==
  \E u \in Users \cup {Admin}, accepted \in BOOLEAN : RefundSave(u, accepted)

\* Shopping (cart, placement, customer cancel), requests served one at a time:
\* a request starts when none is in progress.
ShopSerialNext == (Idle /\ (BeginShop \/ BeginAdmin \/ BeginCancel)) \/ ContinueShop

ShopSerialSpec == Init /\ [][ShopSerialNext]_vars

\* Shopping, with the requests of different users overlapping: each step of a
\* handler is atomic, and between two steps any other request may run.
ShopNext == BeginShop \/ BeginAdmin \/ BeginCancel \/ ContinueShop

ShopSpec == Init /\ [][ShopNext]_vars

\* The whole lifecycle of the first MaxLifecycleOrders orders, requests served
\* one at a time.
LifecycleNext ==
  \/ Idle /\ Len(orders) < MaxLifecycleOrders /\ BeginShop
  \/ Idle /\ (BeginCancel \/ BeginOrder)
  \/ ContinueShop
  \/ ContinueOrder

LifecycleSpec == Init /\ [][LifecycleNext]_vars

\* a customer changes the cart
BeginCart ==
  \/ \E u \in Users, p \in Products, q \in 1..MaxQty : AddToCart(u, p, q)
  \/ \E u \in Users, p \in Products, q \in 1..MaxQty : UpdateCartItem(u, p, q)
  \/ \E u \in Users, p \in Products : RemoveCartItem(u, p)
  \/ \E u \in Users : ClearCart(u)
  \/ \E u \in Users : CartValidate(u)

\* a customer checks out
BeginPlace == \E u \in Users : PlaceRead(u, "stripe")

\* an administrator edits a product
BeginCatalog ==
  \/ \E p \in Products, np \in Prices : UpdateProductPrice(p, np)
  \/ \E p \in Products, nq \in 0..MaxStock, flag \in BOOLEAN :
        UpdateProductStock(p, nq, flag)

\* the orders whose timelines are still short
Shallow == \A i \in 1..Len(orders) : Len(orders[i].timeline) < MaxStoreTimeline

\* The whole store, requests served one at a time: cart, catalogue, checkout,
\* cancellation, status, payment and refund, for the first
\* MaxLifecycleOrders orders and the first MaxStoreTimeline timeline entries.
StoreStep ==
  \/ Idle /\ BeginCart
  \/ Idle /\ Len(orders) < MaxLifecycleOrders /\ BeginPlace
  \/ Idle /\ (BeginAdmin \/ BeginCatalog)
  \/ Idle /\ Shallow /\ (BeginCancel \/ BeginOrder \/ BeginRefund)
  \/ ContinueShop
  \/ ContinueOrder
  \/ ContinueRefund

\* the store narrowed to one customer and one product: the second customer
\* stays away and the second product is left as it was seeded
Narrow ==
  /\ cart["u2"] = <<>> /\ req["u2"] = IdleReq
  /\ stock["p2"] = MaxStock /\ isInStock["p2"] /\ isActive["p2"]
  /\ price["p2"] = ListPrice["p2"]
  /\ \A j \in 1..Len(cart["u1"]) : cart["u1"][j].product = "p1"

StoreNext == StoreStep /\ Narrow'

StoreSpec == Init /\ [][StoreNext]_vars

\* the customer's second session asks to cancel an order
BeginSecond == \E i \in 1..MaxOrders : CancelRead(SecondSession, i)

\* the cancel of the second session takes its next step
ContinueSecond == CancelSave(SecondSession) \/ CancelRestore(SecondSession)

\* no checkout is in progress, and the timelines are still short
Fresh ==
  /\ \A u \in Clients : req[u].op # "place"
  /\ \A i \in 1..Len(orders) : Len(orders[i].timeline) < MaxRaceTimeline

\* Requests on one order overlapping: after a checkout served alone, cancel
\* (from both sessions of the customer), status update, payment confirm and
\* webhook start at any time, and each runs to its end step by step while the
\* others do the same.
RaceStep ==
  \/ Idle /\ Len(orders) < MaxLifecycleOrders /\ BeginShop
  \/ Fresh /\ (BeginCancel \/ BeginSecond \/ BeginOrder)
  \/ ContinueShop
  \/ ContinueSecond
  \/ ContinueOrder

RaceNext == RaceStep /\ Narrow'

RaceSpec == Init /\ [][RaceNext]_vars

\* The order totals as a function of the order's lines: the catalogue starts
\* with prices drawn from TotalsPrices and TotalsStock units of each product,
\* and customer u1 fills the cart and places orders, one request at a time.
TotalsPrices == {225, 1000, 1111}

TotalsInit ==
  /\ stock = [p \in Products |-> TotalsStock]
  /\ isInStock = [p \in Products |-> TRUE]
  /\ isActive = [p \in Products |-> TRUE]
  /\ price \in [Products -> TotalsPrices]
  /\ cart = [u \in Users |-> <<>>]
  /\ orders = <<>>
  /\ intents = <<>>
  /\ req = [u \in Clients |-> IdleReq]

TotalsNext ==
  \/ Idle /\ \E p \in Products, q \in 1..MaxQty : AddToCart("u1", p, q)
  \/ Idle /\ PlaceRead("u1", "stripe")
  \/ PlaceCreate("u1")
  \/ PlaceTimeline("u1")
  \/ PlaceStock("u1")
  \/ PlaceClear("u1")
  \/ Respond("u1")

TotalsSpec == TotalsInit /\ [][TotalsNext]_vars

\* The cart of customer u1 against a catalogue with CartStock units of each
\* product: every cart request with every quantity the request body can
\* carry, in range or not, and the administrator's stock edits and product
\* removals in between; one request at a time.
CartStockLevels == {0, CartLowStock, CartStock}

CartInit ==
  /\ stock = [p \in Products |-> CartStock]
  /\ isInStock = [p \in Products |-> TRUE]
  /\ isActive = [p \in Products |-> TRUE]
  /\ price = [p \in Products |-> ListPrice[p]]
  /\ cart = [u \in Users |-> <<>>]
  /\ orders = <<>>
  /\ intents = <<>>
  /\ req = [u \in Clients |-> IdleReq]

CartNext ==
  \/ Idle /\ \E p \in Products, q \in 0..(MaxPerItem + 1) : AddToCart("u1", p, q)
  \/ Idle /\ \E p \in Products, q \in 0..(MaxPerItem + 1) : UpdateCartItem("u1", p, q)
  \/ Idle /\ \E p \in Products : RemoveCartItem("u1", p)
  \/ Idle /\ ClearCart("u1")
  \/ Idle /\ CartValidate("u1")
  \/ Idle /\ \E p \in Products, nq \in CartStockLevels, flag \in BOOLEAN :
               UpdateProductStock(p, nq, flag)
  \/ Idle /\ \E p \in Products : DeleteProduct(p)
  \/ Respond("u1")

CartSpec == CartInit /\ [][CartNext]_vars

\* The status table walked by the administrator: customer u1 places orders
\* and the administrator asks for every status on every order, one request
\* at a time; nothing else writes an order.
TransitionNext ==
  \/ Idle /\ \E p \in Products, q \in 1..MaxQty : AddToCart("u1", p, q)
  \/ Idle /\ PlaceRead("u1", "stripe")
  \/ PlaceCreate("u1")
  \/ PlaceTimeline("u1")
  \/ PlaceStock("u1")
  \/ PlaceClear("u1")
  \/ Idle /\ \E i \in 1..MaxOrders, s \in Statuses : StatusRead(i, s)
  \/ \E second \in {"refused", "accepted"} : StatusSave(second)
  \/ \E c \in {"u1", Admin} : Respond(c)

TransitionSpec == Init /\ [][TransitionNext]_vars

\* Refunds: customer u1 buys product p1 by card or cash on delivery, pays
\* through an intent, and the customer or the administrator ask for full and
\* partial refunds, with confirm calls and webhook deliveries before and
\* after; one request at a time.
RefundStep ==
  \/ Idle /\ \E q \in 1..MaxQty : AddToCart("u1", "p1", q)
  \/ Idle /\ Len(orders) < MaxLifecycleOrders
          /\ \E method \in {"stripe", "cod"} : PlaceRead("u1", method)
  \/ PlaceCreate("u1")
  \/ PlaceTimeline("u1")
  \/ PlaceStock("u1")
  \/ PlaceClear("u1")
  \/ Idle /\ \E i \in 1..MaxOrders : CreateIntent("u1", i, TRUE)
  \/ Idle /\ \E k \in 1..MaxPayIntents,
                o \in {"succeeded", "payment_failed", "canceled", "requires_action"} :
                ProviderStep(k, o)
  \/ Idle /\ \E k \in 1..MaxPayIntents : ConfirmRead("u1", k)
  \/ ConfirmSave("u1")
  \/ Idle /\ \E k \in 1..MaxPayIntents, e \in Events, sig \in BOOLEAN :
                WebhookRead(k, e, sig)
  \/ WebhookSave
  \/ Idle /\ BeginRefund
  \/ ContinueRefund
  \/ \E c \in Clients : Respond(c)

RefundNext == RefundStep /\ Narrow'

RefundSpec == Init /\ [][RefundNext]_vars

\* Paying: customer u1 orders product p1, both customers ask for payment
\* intents on the orders, whose retrieval from the provider may fail, and
\* the provider, the confirm route and the webhook act on the intents; one
\* request at a time.
PayNext ==
  \/ Idle /\ \E q \in 1..MaxQty : AddToCart("u1", "p1", q)
  \/ Idle /\ Len(orders) < MaxLifecycleOrders /\ PlaceRead("u1", "stripe")
  \/ PlaceCreate("u1")
  \/ PlaceTimeline("u1")
  \/ PlaceStock("u1")
  \/ PlaceClear("u1")
  \/ Idle /\ \E u \in Users, i \in 1..MaxOrders, retrieved \in BOOLEAN :
                CreateIntent(u, i, retrieved)
  \/ Idle /\ \E k \in 1..MaxPayIntents,
                o \in {"succeeded", "payment_failed", "canceled", "requires_action"} :
                ProviderStep(k, o)
  \/ Idle /\ \E k \in 1..MaxPayIntents : ConfirmRead("u1", k)
  \/ ConfirmSave("u1")
  \/ Idle /\ \E k \in 1..MaxPayIntents, e \in Events, sig \in BOOLEAN :
                WebhookRead(k, e, sig)
  \/ WebhookSave
  \/ \E c \in Clients : Respond(c)

PaySpec == Init /\ [][PayNext]_vars

\* ================================================================ claims
\* the transition table as the specification states it
AllowedTargets(s) ==
  CASE s = "pending" -> {"confirmed", "cancelled"}
    [] s = "confirmed" -> {"processing", "cancelled"}
    [] s = "processing" -> {"shipped", "cancelled"}
    [] s = "shipped" -> {"out_for_delivery", "delivered"}
    [] s = "out_for_delivery" -> {"delivered"}
    [] s = "delivered" -> {"returned"}
    [] OTHER -> {}

\* the quantity of product p in a list of lines
RECURSIVE QuantityOf(_, _)
QuantityOf(items, p) ==
  IF items = <<>> THEN 0
  ELSE (IF Head(items).product = p THEN Head(items).quantity ELSE 0)
       + QuantityOf(Tail(items), p)

\* the quantity of product p in the first n orders that are not cancelled
RECURSIVE SoldQuantity(_, _)
SoldQuantity(p, n) ==
  IF n = 0 THEN 0
  ELSE (IF orders[n].orderStatus # "cancelled"
        THEN QuantityOf(orders[n].items, p) ELSE 0)
       + SoldQuantity(p, n - 1)

\* the lines of a cart that ask for more than the stock holds
Exceeding(items) ==
  {j \in 1..Len(items) : items[j].quantity > stock[items[j].product]}

\* the first line of a cart at which the validation loop stops
FirstFailing(items) ==
  CHOOSE j \in 1..Len(items) :
    /\ ~isActive[items[j].product] \/ ~isInStock[items[j].product]
         \/ items[j].quantity > stock[items[j].product]
    /\ \A h \in 1..(j - 1) :
         /\ isActive[items[h].product] /\ isInStock[items[h].product]
         /\ items[h].quantity <= stock[items[h].product]

\* C1: with requests served one at a time, no sequence of order placements
\* and cancellations makes a product's stock.quantity negative.
C1_StockNeverNegative == \A p \in Products : stock[p] >= 0

\* C1 witness: one order was placed and cancelled, another was placed, and
\* a product is sold out.
C1_Witness ==
  /\ Idle
  /\ Len(orders) = 2
  /\ orders[1].orderStatus = "cancelled" /\ orders[2].orderStatus = "pending"
  /\ \E p \in Products : stock[p] = 0

\* C2: with placements overlapping, the quantity of a product in the orders
\* placed (and not cancelled) never exceeds the stock there was to sell.
C2_NoOverselling == \A p \in Products : SoldQuantity(p, Len(orders)) <= MaxStock

\* C3: a step of Order.updateStatus changes an order's status only to a
\* status in the allowed set of the status the order had.
C3_UpdateStatusFollowsTable ==
  [][(req[Admin].op = "status" /\ req[Admin].pc = "save") =>
       \A i \in 1..Len(orders) :
         orders'[i].orderStatus # orders[i].orderStatus =>
           orders'[i].orderStatus \in AllowedTargets(orders[i].orderStatus)]_vars

\* C3 witness: updateStatus has taken an order all the way to returned.
C3_Witness ==
  \E i \in 1..Len(orders) :
    /\ orders[i].orderStatus = "returned"
    /\ \A j \in 2..Len(orders[i].timeline) : orders[i].timeline[j].message = "admin"

\* C4: a status update with a target that is not allowed is answered 400 with
\* an invalid-transition error naming the current and the requested status
\* and leaves the order as it was; one with an allowed target is answered
\* with success.
C4_StatusUpdateAnswer ==
  (req[Admin].op = "status" /\ req[Admin].pc = "done" /\ req[Admin].code # 404) =>
     \/ /\ req[Admin].code = 400 /\ req[Admin].error = "InvalidTransition"
        /\ req[Admin].target \notin AllowedTargets(req[Admin].cur)
        /\ orders[req[Admin].id].orderStatus = req[Admin].cur
     \/ req[Admin].code = 200

\* C5 as stated: a placement with a cart line that asks for more than the
\* stock fails with an insufficient-stock error naming the product and the
\* quantity available, and changes no stock, no cart and no order.
C5_AsStated ==
  [][\A u \in Users :
       (req[u].pc = "idle" /\ req'[u].op = "place" /\ Exceeding(cart[u]) # {}) =>
          /\ req'[u].pc = "done" /\ req'[u].code = 400
          /\ req'[u].error = "InsufficientStock"
          /\ \E j \in Exceeding(cart[u]) :
               /\ req'[u].product = cart[u][j].product
               /\ req'[u].available = stock[cart[u][j].product]
          /\ UNCHANGED <<stock, cart, orders>>]_vars

\* C5 amended: such a placement fails with HTTP 400 and changes no stock, no
\* cart and no order; the error is the insufficient-stock error naming the
\* first line that fails and the quantity available, unless that first
\* failing line is a line of an inactive product, and then it is the error
\* that products are no longer available.
C5_PlacementOverStockFails ==
  [][\A u \in Users :
       (req[u].pc = "idle" /\ req'[u].op = "place" /\ Exceeding(cart[u]) # {}) =>
          LET line == cart[u][FirstFailing(cart[u])] IN
            /\ req'[u].pc = "done" /\ req'[u].code = 400
            /\ IF isActive[line.product]
               THEN /\ req'[u].error = "InsufficientStock"
                    /\ req'[u].product = line.product
                    /\ req'[u].available = stock[line.product]
               ELSE req'[u].error = "Unavailable"
            /\ UNCHANGED <<stock, cart, orders>>]_vars

\* C5 witness: a placement was refused for its second cart line, whose
\* product is sold out although the cart still asks for it.
C5_Witness ==
  \E u \in Users :
    /\ req[u].op = "place" /\ req[u].pc = "done"
    /\ req[u].error = "InsufficientStock"
    /\ Len(cart[u]) = 2
    /\ req[u].product = cart[u][2].product
    /\ cart[u][2].quantity > stock[cart[u][2].product]

\* the timeline entries of an order written by handlePaymentSuccess
WebhookConfirmed(o) ==
  {j \in 1..Len(o.timeline) :
     o.timeline[j] = TimelineEntry("confirmed", "webhook")}

\* the timeline entries of an order with status confirmed
ConfirmedEntries(o) ==
  {j \in 1..Len(o.timeline) : o.timeline[j].status = "confirmed"}

\* C6: a cancel request for an order in processing ends with the order
\* cancelled and answered with success (its quantities back in stock).
C6_CancelInProcessing ==
  \A u \in Users :
    (req[u].op = "cancel" /\ req[u].pc = "done" /\ req[u].id \in 1..Len(orders)
       /\ orders[req[u].id].user = u /\ req[u].cur = "processing") =>
      /\ req[u].code = 200
      /\ orders[req[u].id].orderStatus = "cancelled"

\* C7: a cancel request for an order that is neither pending nor confirmed is
\* rejected and changes no order and no stock; the owner's request for an
\* order that is pending or confirmed goes on to cancel it.
C7_CancelOnlyFromPendingOrConfirmed ==
  [][\A u \in Users :
       (req[u].pc = "idle" /\ req'[u].op = "cancel"
          /\ req'[u].id \in 1..Len(orders)) =>
         IF orders[req'[u].id].orderStatus \in {"pending", "confirmed"}
         THEN (orders[req'[u].id].user = u => req'[u].pc = "save")
         ELSE /\ req'[u].pc = "done" /\ req'[u].code \in {400, 403}
              /\ UNCHANGED <<orders, stock>>]_vars

\* C7 witness: the owner's cancel of a shipped order was rejected with 400.
C7_Witness ==
  \E u \in Users :
    /\ req[u].op = "cancel" /\ req[u].pc = "done" /\ req[u].code = 400
    /\ req[u].cur = "shipped"
    /\ orders[req[u].id].orderStatus = "shipped"

\* C8: a payment-succeeded notification for an order whose payment is
\* completed is answered 200 and changes no order; the notification for a
\* pending order confirms it and adds one timeline entry, and no order ever
\* has two such entries.
C8_PaymentSuccessIdempotent ==
  [][
      /\ (req[Provider].pc = "idle" /\ req'[Provider].op = "webhook"
           /\ req'[Provider].kind = "succeeded"
           /\ req'[Provider].id # 0
           /\ orders[req'[Provider].id].payStatus = "completed") =>
          /\ req'[Provider].pc = "done" /\ req'[Provider].code = 200
          /\ UNCHANGED orders
      /\ (req[Provider].op = "webhook" /\ req[Provider].pc = "save"
           /\ req[Provider].kind = "succeeded"
           /\ orders[req[Provider].id].orderStatus = "pending") =>
          /\ orders'[req[Provider].id].orderStatus = "confirmed"
          /\ Cardinality(WebhookConfirmed(orders'[req[Provider].id])) = 1
      /\ \A i \in 1..Len(orders') :
           Cardinality(WebhookConfirmed(orders'[i])) <= 1]_vars

\* C8 witness: the notification was delivered again to an order that the
\* first delivery had confirmed, and was answered 200.
C8_Witness ==
  /\ req[Provider].op = "webhook" /\ req[Provider].pc = "done"
  /\ req[Provider].kind = "succeeded" /\ req[Provider].code = 200
  /\ req[Provider].id # 0
  /\ orders[req[Provider].id].payStatus = "completed"
  /\ Cardinality(WebhookConfirmed(orders[req[Provider].id])) = 1

\* C9: a successful payment, through the webhook or the confirm endpoint,
\* changes the order status and adds a confirmed timeline entry only for an
\* order that is pending.
C9_ConfirmOnlyIfPending ==
  [][\A u \in Clients :
       (req[u].op \in {"confirm", "webhook"} /\ req[u].pc = "save"
          /\ req[u].kind = "succeeded"
          /\ orders[req[u].id].orderStatus # "pending") =>
         /\ orders'[req[u].id].orderStatus = orders[req[u].id].orderStatus
         /\ ConfirmedEntries(orders'[req[u].id]) = ConfirmedEntries(orders[req[u].id])]_vars

\* C10: every change of an order's status, by any operation, is an edge of
\* the transition table.
C10_StatusChangesFollowTable ==
  [][\A i \in 1..Len(orders) :
       orders'[i].orderStatus # orders[i].orderStatus =>
         orders'[i].orderStatus \in AllowedTargets(orders[i].orderStatus)]_vars

\* the last entry of an order's timeline names the order's status
Mirrors(o) ==
  /\ Len(o.timeline) > 0
  /\ o.timeline[Len(o.timeline)].status = o.orderStatus

\* C11: no step removes or rewrites an entry of an order's timeline, and
\* whenever no request is in progress every order's timeline is non-empty and
\* its last entry has the order's status.
C11_TimelineGrowsAndMirrors ==
  [][/\ \A i \in 1..Len(orders) :
          /\ Len(orders'[i].timeline) >= Len(orders[i].timeline)
          /\ SubSeq(orders'[i].timeline, 1, Len(orders[i].timeline))
               = orders[i].timeline
     /\ Idle' => \A i \in 1..Len(orders') : Mirrors(orders'[i])]_vars

\* C11 witness: at rest, an order that the administrator confirmed, whose
\* payment then failed and which was later paid and refunded.
C11_Witness ==
  /\ Idle
  /\ \E i \in 1..Len(orders) :
       /\ orders[i].orderStatus = "confirmed"
       /\ Len(orders[i].timeline) = 4
       /\ orders[i].timeline[3].message = "Payment failed"
       /\ orders[i].timeline[4].message = "Refund"

\* a step in which the confirm endpoint writes an order
ConfirmEndpointStep ==
  \E u \in Users : req[u].op = "confirm" /\ req[u].pc = "save" /\ req'[u].pc = "done"

\* C12: with requests on one order overlapping, every status a request
\* writes is allowed from the status the order has when it is written (the
\* unconditional write of the confirm endpoint set aside).
C12_NoLostStatusUpdate ==
  [][\A i \in 1..Len(orders) :
       (orders'[i].orderStatus # orders[i].orderStatus /\ ~ConfirmEndpointStep) =>
         orders'[i].orderStatus \in AllowedTargets(orders[i].orderStatus)]_vars

\* C13: with two cancel requests for one order overlapping, the order is
\* cancelled by one of them only and no product ends with more stock than
\* it had before the order.
C13_CancelOnce ==
  /\ \A i \in 1..Len(orders) :
       Cardinality({j \in 1..Len(orders[i].timeline) :
                      orders[i].timeline[j] = TimelineEntry("cancelled", "customer")}) <= 1
  /\ \A p \in Products : stock[p] <= MaxStock

\* C14: the step that ends a successful placement leaves one new order,
\* pending with payment pending, whose items copy the cart's products,
\* quantities and prices, a timeline of the one entry pending, an empty
\* cart, and every product's stock lowered by exactly what the orders in
\* force hold of it.
C14_PlacementEffects ==
  [][\A u \in Users :
       (req[u].op = "place" /\ req[u].pc = "clear" /\ req'[u].pc = "done") =>
         LET o == orders'[req[u].id] IN
           /\ req'[u].code = 201
           /\ req[u].id = Len(orders')
           /\ o.user = u
           /\ o.orderStatus = "pending" /\ o.payStatus = "pending"
           /\ o.timeline = <<TimelineEntry("pending", "placed")>>
           /\ Len(o.items) = Len(cart[u])
           /\ \A j \in 1..Len(cart[u]) :
                /\ o.items[j].product = cart[u][j].product
                /\ o.items[j].quantity = cart[u][j].quantity
                /\ o.items[j].price = cart[u][j].price
           /\ cart'[u] = <<>>
           /\ \A p \in Products :
                stock'[p] = MaxStock - SoldQuantity(p, Len(orders))']_vars

\* C14 witness: a placement of a cart of two lines has been answered 201.
C14_Witness ==
  \E u \in Users :
    /\ req[u].op = "place" /\ req[u].pc = "done" /\ req[u].code = 201
    /\ Len(orders[req[u].id].items) = 2
    /\ \A p \in Products : stock[p] = 0

\* C15: when the cancel of the one order placed is answered with success,
\* every product's stock is what it was before the placement, the order is
\* cancelled, and its cancellation reason, cancelledAt and cancelledBy are set.
C15_PlaceThenCancelRoundTrip ==
  \A u \in Users :
    (req[u].op = "cancel" /\ req[u].pc = "done" /\ req[u].code = 200) =>
      /\ \A p \in Products : stock[p] = MaxStock
      /\ orders[req[u].id].orderStatus = "cancelled"
      /\ orders[req[u].id].reason
      /\ orders[req[u].id].cancelledAt > 0
      /\ orders[req[u].id].cancelledBy = u

\* the sum of price times quantity over the lines
RECURSIVE LineSum(_)
LineSum(items) ==
  IF items = <<>> THEN 0
  ELSE Head(items).price * Head(items).quantity + LineSum(Tail(items))

C17_StatusUpdateWritesTogether ==
  [][/\ (req[Admin].op = "status" /\ req[Admin].pc = "save" /\ req'[Admin].pc = "done") =>
          LET o == orders[req[Admin].id]
              n == orders'[req[Admin].id]
              t == req[Admin].target
          IN /\ n.orderStatus = t
             /\ Len(n.timeline) = Len(o.timeline) + 1
             /\ SubSeq(n.timeline, 1, Len(o.timeline)) = o.timeline
             /\ n.timeline[Len(n.timeline)].status = t
             /\ t = "shipped" => n.shippedAt > o.shippedAt
             /\ t = "delivered" => n.deliveredAt > o.deliveredAt
             /\ t = "cancelled" => (n.cancelledAt > o.cancelledAt /\ n.cancelledBy = Admin)
     /\ \A i \in 1..Len(orders') :
          /\ orders'[i].orderStatus = "shipped" => orders'[i].shippedAt > 0
          /\ orders'[i].orderStatus = "delivered" => orders'[i].deliveredAt > 0
          /\ orders'[i].orderStatus = "cancelled" =>
               (orders'[i].cancelledAt > 0 /\ orders'[i].cancelledBy # NoUser)]_vars

\* C17 witness: a status update to delivered has been stored.
C17_Witness ==
  /\ req[Admin].op = "status" /\ req[Admin].pc = "done"
  /\ \E i \in 1..Len(orders) :
       /\ req[Admin].id = i
       /\ orders[i].orderStatus = "delivered"
       /\ orders[i].deliveredAt > 0 /\ orders[i].shippedAt > 0
       /\ orders[i].timeline[Len(orders[i].timeline)] = TimelineEntry("delivered", "admin")

\* C18: the save of a payment failure (webhook payment_failed or canceled,
\* or the failure branch of /api/payment/confirm) sets the payment status to
\* failed and leaves the order's status, its items and all stock unchanged.
C18_PaymentFailureLeavesOrder ==
  [][\A c \in Users \cup {Provider} :
       (/\ req[c].pc = "save" /\ req'[c].pc = "done"
        /\ \/ req[c].op = "webhook" /\ req[c].kind \in {"payment_failed", "canceled"}
           \/ req[c].op = "confirm" /\ req[c].kind = "failed") =>
         /\ orders'[req[c].id].payStatus = "failed"
         /\ orders'[req[c].id].orderStatus = orders[req[c].id].orderStatus
         /\ orders'[req[c].id].items = orders[req[c].id].items
         /\ stock' = stock]_vars

\* C18 witness: a confirmed, paid order has received a canceled-payment
\* notification: its payment is failed, its status still confirmed.
C18_Witness ==
  \E i \in 1..Len(orders) :
    /\ orders[i].orderStatus = "confirmed" /\ orders[i].payStatus = "failed"
    /\ orders[i].timeline[Len(orders[i].timeline)] = TimelineEntry("confirmed", "Payment canceled")
    /\ req[Provider].op = "webhook" /\ req[Provider].pc = "done"

\* C19: no step changes the items of a stored order: products, quantities
\* and prices stay as they were stored at creation.
C19_OrderItemsFrozen ==
  [][/\ Len(orders') >= Len(orders)
     /\ \A i \in 1..Len(orders) : orders'[i].items = orders[i].items]_vars

\* C19 witness: an order bought at 1800, since refunded, while the product's
\* price was edited to 225 and the customer's cart holds the product again.
C19_Witness ==
  \E i \in 1..Len(orders) :
    /\ orders[i].items[1].product = "p1" /\ orders[i].items[1].price = 1800
    /\ price["p1"] = 225
    /\ orders[i].payStatus \in {"refunded", "partially_refunded"}
    /\ cart[orders[i].user] # <<>>

\* a step of order placement that lowers p's stock by the line's quantity
PlacementLowers(p) ==
  \E u \in Users :
    /\ req[u].op = "place" /\ req[u].pc = "stock"
    /\ req[u].items[req[u].k].product = p
    /\ stock'[p] = stock[p] - req[u].items[req[u].k].quantity

\* a step of order cancellation that raises p's stock by the item's quantity
CancellationRaises(p) ==
  \E u \in Users \cup {SecondSession} :
    /\ req[u].op = "cancel" /\ req[u].pc = "restore"
    /\ req[u].items[req[u].k].product = p
    /\ stock'[p] = stock[p] + req[u].items[req[u].k].quantity

\* a step that serves no order, cart or payment request and edits neither a
\* price nor a product's availability: the product update of the stock
ProductUpdateStep ==
  /\ req' = req /\ orders' = orders /\ cart' = cart /\ intents' = intents
  /\ isActive' = isActive /\ price' = price

\* C20 as stated: a product's stock changes only in a placement step
\* (decrease by the ordered quantity) or a cancellation step (increase by
\* the order's quantity).
C20_StockOnlyByOrders ==
  [][\A p \in Products :
       stock'[p] # stock[p] => (PlacementLowers(p) \/ CancellationRaises(p))]_vars

\* C20 amended: a product's stock changes only in a placement step, a
\* cancellation step, or an administrator's product update; every step of a
\* cart, payment, webhook, refund or status request leaves it unchanged.
C20_StockByOrdersAndProductUpdate ==
  [][\A p \in Products :
       stock'[p] # stock[p] =>
         (PlacementLowers(p) \/ CancellationRaises(p) \/ ProductUpdateStep)]_vars

\* C20 witness: while an order holding the one unit of p1 is in force, and
\* after a refund and an administrator's status update, p1 is in stock again
\* through a product update.
C20_Witness ==
  /\ Len(orders) = 1
  /\ orders[1].orderStatus \in {"confirmed", "processing"}
  /\ orders[1].payStatus \in {"refunded", "partially_refunded"}
  /\ orders[1].items[1].product = "p1"
  /\ stock["p1"] = MaxStock

\* C21: for every product, stock.isInStock is true exactly when
\* stock.quantity is above zero.
C21_InStockMatchesQuantity ==
  \A p \in Products : isInStock[p] <=> stock[p] > 0

\* C22: every item of every stored cart has a quantity from 1 to 10.
C22_CartQuantityInRange ==
  \A u \in Users : \A j \in 1..Len(cart[u]) :
    cart[u][j].quantity >= 1 /\ cart[u][j].quantity <= 10

\* C22 witness: with a line at quantity 10 in the cart and more than 10
\* units in stock, a further add of the product has been refused for the
\* cap, and the line still stands at 10.
C22_Witness ==
  /\ req["u1"].op = "addToCart" /\ req["u1"].pc = "done"
  /\ req["u1"].error = "MaxPerItem"
  /\ \E j \in 1..Len(cart["u1"]) :
       cart["u1"][j].quantity = 10 /\ stock[cart["u1"][j].product] > 10

\* C23: a webhook request whose signature does not verify is answered 400
\* and changes no order; a webhook request writes an order only for an event
\* the provider has really emitted for the order's intent.
C23_WebhookVerifiedBeforeTrust ==
  [][/\ (req'[Provider].pc = "done" /\ req'[Provider].error = "SignatureVerification") =>
          /\ req[Provider].pc = "idle"
          /\ req'[Provider].code = 400
          /\ orders' = orders
     /\ (req[Provider].op = "webhook" /\ req[Provider].pc = "save") =>
          req[Provider].kind \in intents[req[Provider].intent].events]_vars

\* C23 witness: an order awaits payment on an intent the provider has
\* reported nothing about, and a webhook request has been refused for its
\* signature.
C23_Witness ==
  /\ req[Provider].op = "webhook" /\ req[Provider].pc = "done"
  /\ req[Provider].code = 400 /\ req[Provider].error = "SignatureVerification"
  /\ \E i \in 1..Len(orders) :
       /\ orders[i].paymentIntentId # 0
       /\ intents[orders[i].paymentIntentId].events = {}
       /\ orders[i].payStatus = "pending" /\ orders[i].orderStatus = "pending"

\* C24: whenever no request is in progress, each product's stock plus the
\* quantities of it held by the orders that are not cancelled equals its
\* initial stock.
C24_StockConserved ==
  Idle => \A p \in Products : stock[p] + SoldQuantity(p, Len(orders)) = MaxStock

\* C25: no step takes an order's payment status from completed to anything
\* but refunded or partially_refunded.
C25_CompletedLeavesOnlyByRefund ==
  [][\A i \in 1..Len(orders) :
       orders[i].payStatus = "completed" =>
         orders'[i].payStatus \in {"completed", "refunded", "partially_refunded"}]_vars

\* C26: under status updates alone, no order's timeline names a status
\* twice, an order has at most 6 transitions after its creation, and six
\* transitions end in returned; a status update asked of an order in
\* cancelled or returned is refused and changes nothing.
C26_TransitionsAcyclic ==
  [][/\ \A i \in 1..Len(orders') :
          LET t == orders'[i].timeline IN
            /\ \A j, h \in 1..Len(t) : t[j].status = t[h].status => j = h
            /\ Len(t) <= 1 + 6
            /\ Len(t) = 1 + 6 => orders'[i].orderStatus = "returned"
     /\ \A i \in 1..Len(orders) :
          (/\ orders[i].orderStatus \in {"cancelled", "returned"}
           /\ req[Admin].pc = "idle" /\ req'[Admin].pc # "idle"
           /\ req'[Admin].id = i) =>
            /\ req'[Admin].pc = "done" /\ req'[Admin].code = 400
            /\ req'[Admin].error = "InvalidTransition"
            /\ orders' = orders]_vars

\* C26 witness: an order has gone the longest way, six transitions from
\* pending to returned, and a further status update of it has been refused.
C26_Witness ==
  \E i \in 1..Len(orders) :
    /\ Len(orders[i].timeline) = 7
    /\ orders[i].orderStatus = "returned"
    /\ req[Admin].pc = "done" /\ req[Admin].id = i
    /\ req[Admin].error = "InvalidTransition"

\* C27: an order placement asked with an empty cart, or with a cart holding
\* a product that is gone or inactive, is answered 400 at once and leaves
\* the orders, every product's stock and the cart as they were.
C27_BadCartRejected ==
  [][\A u \in Users :
       (/\ req[u].pc = "idle" /\ req'[u].op = "place"
        /\ \/ cart[u] = <<>>
           \/ \E j \in 1..Len(cart[u]) : ~isActive[cart[u][j].product]) =>
         /\ req'[u].pc = "done" /\ req'[u].code = 400
         /\ orders' = orders /\ stock' = stock /\ cart' = cart]_vars

\* C27 witness: a placement has been refused because the cart's second line
\* is of a product removed since it was added, the first line being in order.
C27_Witness ==
  \E u \in Users :
    /\ req[u].op = "place" /\ req[u].pc = "done"
    /\ req[u].code = 400 /\ req[u].error = "Unavailable"
    /\ Len(cart[u]) = 2
    /\ isActive[cart[u][1].product] /\ ~isActive[cart[u][2].product]
    /\ stock[cart[u][1].product] >= cart[u][1].quantity

\* C28: when POST /api/cart/validate has answered, every item of the stored
\* cart is of an active product that is in stock, with a quantity within the
\* product's stock and the product's current price.
C28_ValidatedCartIsValid ==
  \A u \in Users :
    (req[u].op = "validateCart" /\ req[u].pc = "done") =>
      \A j \in 1..Len(cart[u]) :
        LET p == cart[u][j].product IN
          /\ isActive[p] /\ isInStock[p] /\ stock[p] > 0
          /\ cart[u][j].quantity <= stock[p]
          /\ cart[u][j].price = price[p]

Charged(i) == {k \in 1..Len(intents) : intents[k].order = i /\ intents[k].status = "succeeded"}

\* C30: an intent is created only for a pending order of the caller whose
\* stored intent, if any, has neither succeeded nor is awaiting payment; and
\* no order ever has two intents that were charged.
C30_OneChargePerOrder ==
  [][/\ \A u \in Users :
          (req[u].pc = "idle" /\ req'[u].op = "createIntent"
           /\ Len(intents') > Len(intents)) =>
            LET o == orders[req'[u].id] IN
              /\ o.user = u /\ o.orderStatus = "pending"
              /\ o.paymentIntentId # 0 =>
                   intents[o.paymentIntentId].status
                     \notin ({"succeeded"} \cup reusableIntentStatuses)
     /\ \A i \in 1..Len(orders) : Cardinality(Charged(i)') <= 1]_vars

====
